---- MODULE Spec2Model ----
(***************************************************************************)
(* Model of convert_docx_to_txt.py: the DOCX -> TXT converter.             *)
(*                                                                         *)
(* A Python str is a sequence of tokens (a token is a character or an      *)
(* unbreakable piece of text); a path is a sequence of its segments.       *)
(* A Python value that may be None is a record [type, val].                *)
(* The paragraphs of word/document.xml are read one per loop iteration,    *)
(* in the order root.findall('.//w:p') yields them; `paras` holds the ones *)
(* read so far for the current document.                                   *)
(***************************************************************************)
EXTENDS Integers, Sequences, FiniteSets, TLC

VARIABLES
    target_path,         \* main: target_path is a "file" or a "dir"
    OPENROUTER_API_KEY,  \* module global, "" when LLM_TOKEN is not set
    HAS_DOCX,            \* module global, FALSE when python-docx failed to import
    docx_files,          \* main: docx_files, each with the package read from it
    idx,                 \* position of main's loop in docx_files (1-based)
    fs,                  \* the .txt file next to each docx file
    printed,             \* the last message printed about each docx file
    pc,                  \* control position
    images,              \* parse_docx_structure: images (the Media Store)
    rel_to_image,        \* parse_docx_structure: rel_to_image (the Relationship Table)
    paras,               \* paragraphs of the document iterated so far
    nread,               \* paragraphs read in this run
    elements,            \* parse_docx_structure: elements
    ei,                  \* position of convert_docx_to_txt's loop in elements
    result_lines,        \* convert_docx_to_txt: result_lines
    image_count,         \* convert_docx_to_txt: image_count
    calls,               \* the images analyze_image_with_api was called for
    outcome              \* how the last convert_docx_to_txt call ended

vars == <<target_path, OPENROUTER_API_KEY, HAS_DOCX, docx_files, idx, fs, printed, pc,
          images, rel_to_image, paras, nread, elements, ei, result_lines,
          image_count, calls, outcome>>

(***************************************************************************)
(* Bounds of the model.                                                    *)
(***************************************************************************)
\* paragraphs of the document when main is given one file
MaxParas == 3
\* paragraphs read over all documents when main is given a directory
MaxBatchParas == 1
\* documents in a batch
MaxDocs == 2
\* elements of a sequence handed to the rendering loop on its own
MaxElements == 3

(***************************************************************************)
(* Python values and strings.                                              *)
(***************************************************************************)
Str(s) == [type |-> "str", val |-> s]
None == [type |-> "NoneType", val |-> <<>>]

Whitespace == {" ", "\n", "\t"}

RECURSIVE lstrip(_)
lstrip(s) == IF s # <<>> /\ Head(s) \in Whitespace THEN lstrip(Tail(s)) ELSE s

RECURSIVE rstrip(_)
rstrip(s) ==
    IF s # <<>> /\ s[Len(s)] \in Whitespace THEN rstrip(SubSeq(s, 1, Len(s) - 1)) ELSE s

\* str.strip()
strip(s) == rstrip(lstrip(s))

\* join as it would be if every part were followed by sep (as print or
\* writelines of terminated lines would do)
RECURSIVE join_terminated(_, _)
join_terminated(sep, parts) ==
    IF parts = <<>> THEN <<>>
    ELSE parts[1] \o sep \o join_terminated(sep, Tail(parts))

\* sep.join(parts) for a list of str
RECURSIVE join(_, _)
join(sep, parts) ==
    IF parts = <<>> THEN <<>>
    ELSE IF Len(parts) = 1 THEN parts[1]
    ELSE parts[1] \o sep \o join(sep, Tail(parts))

\* Path(p).name
PathName(p) == IF p = <<>> THEN "" ELSE p[Len(p)]

\* s.startswith(prefix + '/') for paths
StartsWith(p, prefix) ==
    /\ Len(p) > Len(prefix)
    /\ SubSeq(p, 1, Len(prefix)) = prefix

(***************************************************************************)
(* The package: parts of the zip container.                                *)
(***************************************************************************)
RelsPart == <<"word", "_rels", "document.xml.rels">>
DocPart == <<"word", "document.xml">>

\* Parts present in every package of the model, with their bytes
FixedParts ==
    { [name |-> DocPart, data |-> "xml"],
      [name |-> <<"word", "styles.xml">>, data |-> "xml"],
      [name |-> <<"word", "media", "A.png">>, data |-> "bytesA"],
      [name |-> <<"word", "media", "B.png">>, data |-> "bytesB"],
      [name |-> <<"docProps", "media", "X.png">>, data |-> "bytesX"] }

\* <Relationship Id= Target=> entries of a well-formed relationships part
RelsEntries ==
    { [Id |-> "rId1", Target |-> <<"media", "A.png">>],
      [Id |-> "rId2", Target |-> <<"media", "B.png">>],
      [Id |-> "rId3", Target |-> <<"media", "C.png">>],
      [Id |-> "rId4", Target |-> <<"styles.xml">>] }

\* rels: the relationships part is "ok" or "missing" (a part that is no XML
\* raises where a missing one does, in the same try blocks);
\* docxml: the main document part is "ok" or "malformed"
Packages == [rels : {"ok", "missing"}, docxml : {"ok", "malformed"}]

\* a docx file that was not opened yet
Unread == [rels |-> "unread", docxml |-> "unread"]

\* zip_ref.namelist() with the parts' bytes
PartsOf(p) ==
    FixedParts \cup
    (IF p.rels = "missing" THEN {} ELSE {[name |-> RelsPart, data |-> p.rels]})

(***************************************************************************)
(* Paragraphs: the w:t texts and the w:drawing anchors below a w:p.        *)
(***************************************************************************)
NoId == ""

\* a drawing with an a:blip carrying r:embed = id
Drawing(id) == [blip |-> TRUE, embed |-> id]
\* a drawing without any a:blip (a chart, a shape)
NoBlip == [blip |-> FALSE, embed |-> NoId]
\* a drawing whose a:blip has no r:embed attribute (a linked picture)
NoEmbed == [blip |-> TRUE, embed |-> NoId]

TitleRuns == << <<"Title">> >>
BodyRuns == << <<"Body">>, <<" ", "text">> >>
\* a w:t without text and one holding a blank
BlankRuns == << <<>>, <<" ">> >>
PaddedRuns == << <<" ", "x">>, <<>>, <<"y", " ">> >>

TextParagraphs ==
    { [runs |-> r, drawings |-> <<>>] : r \in {TitleRuns, BodyRuns, BlankRuns, PaddedRuns} }

\* rId1, rId2: media parts of the package; rId3: a media target that is no
\* part of the package; rId4: a target outside media/; rId9: no relationship
DrawingParagraphs ==
    { [runs |-> <<>>, drawings |-> <<Drawing("rId1")>>],
      [runs |-> BodyRuns, drawings |-> <<Drawing("rId1")>>],
      [runs |-> BlankRuns,
       drawings |-> <<Drawing("rId9"), Drawing("rId3"), Drawing("rId2"), Drawing("rId1")>>],
      [runs |-> TitleRuns, drawings |-> <<Drawing("rId3"), NoBlip>>],
      [runs |-> <<>>, drawings |-> <<NoEmbed, Drawing("rId4")>>] }

Paragraphs == TextParagraphs \cup DrawingParagraphs

(***************************************************************************)
(* extract_images_from_docx and the relationship table.                    *)
(***************************************************************************)
MediaDir == <<"word", "media">>

\* extract_images_from_docx: every part whose name starts with 'word/media/'
extract_images_from_docx(p) ==
    LET media == {part \in PartsOf(p) : StartsWith(part.name, MediaDir)}
    IN  [n \in {part.name : part \in media} |->
            (CHOOSE part \in media : part.name = n).data]

\* target.startswith('media/')
IsMediaTarget(t) == StartsWith(t, <<"media">>)

\* rel_to_image of the python-docx branch: Id -> 'word/' + Target
PrimaryRelToImage(entries) ==
    LET media == {e \in entries : IsMediaTarget(e.Target)}
    IN  [id \in {e.Id : e \in media} |->
            <<"word">> \o (CHOOSE e \in media : e.Id = id).Target]

\* rel_to_image of the fallback branch; {} when the part cannot be read or parsed
FallbackRelToImage(p) ==
    IF p.rels = "ok"
    THEN LET media == {e \in RelsEntries : IsMediaTarget(e.Target)}
         IN  [id \in {e.Id : e \in media} |->
                 <<"word">> \o (CHOOSE e \in media : e.Id = id).Target]
    ELSE [id \in {} |-> <<>>]

(***************************************************************************)
(* One iteration of the paragraph loop.                                    *)
(***************************************************************************)
Text(s) == [type |-> "text", content |-> s]
Image(path) == [type |-> "image", content |-> path]

NoPath == <<>>

\* text_parts: the texts of the w:t elements, those with empty text left out
TextParts(p) == SelectSeq(p.runs, LAMBDA t : t # <<>>)

\* Joined as it would be with ' '.join(text_parts)
RECURSIVE Joined_spaced(_)
Joined_spaced(parts) ==
    IF parts = <<>> THEN <<>>
    ELSE IF Len(parts) = 1 THEN parts[1]
    ELSE Head(parts) \o <<" ">> \o Joined_spaced(Tail(parts))

\* ''.join(text_parts)
RECURSIVE Joined(_)
Joined(parts) == IF parts = <<>> THEN <<>> ELSE Head(parts) \o Joined(Tail(parts))

\* PrimaryFindImage as it would be without the break: the last drawing that
\* resolves wins
RECURSIVE PrimaryFindImage_last(_, _, _)
PrimaryFindImage_last(drawings, rels, imgs) ==
    IF drawings = <<>> THEN NoPath
    ELSE LET d == drawings[Len(drawings)]
         IN  IF /\ d.blip
                /\ d.embed # NoId
                /\ d.embed \in DOMAIN rels
                /\ rels[d.embed] \in DOMAIN imgs
             THEN rels[d.embed]
             ELSE PrimaryFindImage_last(SubSeq(drawings, 1, Len(drawings) - 1), rels, imgs)

\* python-docx branch: the loop over drawings, left by break at the first
\* drawing whose blip's r:embed is in rel_to_image with a path in images
RECURSIVE PrimaryFindImage(_, _, _)
PrimaryFindImage(drawings, rels, imgs) ==
    IF drawings = <<>> THEN NoPath
    ELSE LET d == Head(drawings)
         IN  IF /\ d.blip
                /\ d.embed # NoId
                /\ d.embed \in DOMAIN rels
                /\ rels[d.embed] \in DOMAIN imgs
             THEN rels[d.embed]
             ELSE PrimaryFindImage(Tail(drawings), rels, imgs)

\* python-docx branch: the elements one paragraph appends
PrimaryEmit(p, rels, imgs) ==
    LET text_parts == TextParts(p)
        image_path == PrimaryFindImage(p.drawings, rels, imgs)
        text_content == strip(Joined(text_parts))
        text == IF text_parts # <<>> /\ text_content # <<>>
                THEN <<Text(text_content)>> ELSE <<>>
    IN  IF image_path # NoPath THEN text \o <<Image(image_path)>> ELSE text

\* FallbackFindImage as it would be if it took the first drawing with an
\* r:embed in rel_to_image and gave up when its path is not in images
RECURSIVE FallbackFindImage_firstInTable(_, _, _)
FallbackFindImage_firstInTable(drawings, rels, imgs) ==
    IF drawings = <<>> THEN NoPath
    ELSE LET d == Head(drawings)
         IN  IF d.blip /\ d.embed # NoId /\ d.embed \in DOMAIN rels
             THEN IF rels[d.embed] \in DOMAIN imgs THEN rels[d.embed] ELSE NoPath
             ELSE FallbackFindImage_firstInTable(Tail(drawings), rels, imgs)

\* fallback branch: the loop over drawings
RECURSIVE FallbackFindImage(_, _, _)
FallbackFindImage(drawings, rels, imgs) ==
    IF drawings = <<>> THEN NoPath
    ELSE LET d == Head(drawings)
         IN  IF /\ d.blip
                /\ d.embed # NoId
                /\ d.embed \in DOMAIN rels
                /\ rels[d.embed] \in DOMAIN imgs
             THEN rels[d.embed]
             ELSE FallbackFindImage(Tail(drawings), rels, imgs)

\* FallbackEmit as it would be if the image were appended before the text
FallbackEmit_imageFirst(p, rels, imgs) ==
    LET text_parts == TextParts(p)
        image_path == FallbackFindImage(p.drawings, rels, imgs)
        text_content == strip(Joined(text_parts))
        text == IF text_parts # <<>> /\ text_content # <<>>
                THEN <<Text(text_content)>> ELSE <<>>
    IN  IF image_path # NoPath THEN <<Image(image_path)>> \o text ELSE text

\* fallback branch: the elements one paragraph appends
FallbackEmit(p, rels, imgs) ==
    LET text_parts == TextParts(p)
        image_path == FallbackFindImage(p.drawings, rels, imgs)
        text_content == strip(Joined(text_parts))
        text == IF text_parts # <<>> /\ text_content # <<>>
                THEN <<Text(text_content)>> ELSE <<>>
    IN  IF image_path # NoPath THEN text \o <<Image(image_path)>> ELSE text

(***************************************************************************)
(* The description provider.                                               *)
(***************************************************************************)
Desc == <<"<desc>">>

\* What the request to the provider leads to:
\*   timeout      requests.post raises (network failure, timeout)
\*   http_error   response.raise_for_status() raises
\*   no_choices   the JSON has no 'choices' or an empty list
\*   content      choices[0].message.content is the value `content`: a string,
\*                or the JSON null
Responses ==
    { [kind |-> "timeout", content |-> None],
      [kind |-> "http_error", content |-> None],
      [kind |-> "no_choices", content |-> None],
      [kind |-> "content", content |-> Str(Desc)],
      [kind |-> "content", content |-> None] }

\* str(e) of the exception a response raises: a text the model does not look into
ErrText(resp) == "<e>"

\* analyze_image_with_api: the value returned
analyze_image_with_api(key, image_name, resp) ==
    IF key = ""
    THEN Str(<<"[Image: ", image_name, " - no API token]">>)
    ELSE IF resp.kind \in {"timeout", "http_error"}
    THEN Str(<<"[Image: ", image_name, " - analysis error: ", ErrText(resp), "]">>)
    ELSE IF resp.kind = "content"
    THEN resp.content
    ELSE Str(<<"[Image: ", image_name, " - no description]">>)

\* LabelLine as it would be with a counter incremented after its use
LabelLine_zeroBased(n, name) == <<"\n", "[IMAGE ", ToString(n - 1), ": ", name, "]">>

\* f"\n[image {image_count}: {image_name}]"
LabelLine(n, name) == <<"\n", "[IMAGE ", ToString(n), ": ", name, "]">>

\* f"\n[image {image_count}: {image_name} - not found]"
NotFoundLine(n, name) == <<"\n", "[IMAGE ", ToString(n), ": ", name, " - not found]">>

(***************************************************************************)
(* Files and the initial state.                                            *)
(***************************************************************************)
NoFile == [exists |-> FALSE, text |-> <<>>]
File(text) == [exists |-> TRUE, text |-> text]
OldFile == File(<<"old">>)

\* paragraphs the model lets one run read
ParaLimit == IF target_path = "file" THEN MaxParas ELSE MaxBatchParas

Init ==
    /\ target_path \in {"file", "dir"}
    /\ OPENROUTER_API_KEY \in {"", "sk-key"}
    /\ HAS_DOCX \in BOOLEAN
    /\ \E n \in 1..MaxDocs :
        /\ target_path = "file" => n = 1
        /\ docx_files = [i \in 1..n |-> Unread]
        /\ fs \in [1..n -> {NoFile, OldFile}]
        /\ printed = [i \in 1..n |-> ""]
    /\ idx = 1
    /\ pc = "main"
    /\ images = [n \in {} |-> ""]
    /\ rel_to_image = [id \in {} |-> <<>>]
    /\ paras = <<>>
    /\ nread = 0
    /\ elements = <<>>
    /\ ei = 0
    /\ result_lines = <<>>
    /\ image_count = 0
    /\ calls = <<>>
    /\ outcome = ""

globals == <<target_path, OPENROUTER_API_KEY, HAS_DOCX>>

ndocs == Len(docx_files)

\* the package at docx_path
pkg == docx_files[idx]
render_locals == <<ei, result_lines, image_count, calls>>

(***************************************************************************)
(* main                                                                    *)
(***************************************************************************)
\* main up to its loop: docx_files is the file given or the *.docx files of
\* the directory given; without LLM_TOKEN main returns before converting
\* anything
MainCheckToken ==
    /\ pc = "main"
    /\ pc' = IF OPENROUTER_API_KEY = "" THEN "finished" ELSE "main_loop"
    /\ UNCHANGED <<globals, docx_files, idx, fs, printed, images, rel_to_image, paras, nread,
                   elements, render_locals, outcome>>

\* a docx file whose .txt exists is skipped
MainSkip ==
    /\ pc = "main_loop"
    /\ idx <= ndocs
    /\ fs[idx].exists
    /\ printed' = [printed EXCEPT ![idx] = "skip"]
    /\ idx' = idx + 1
    /\ UNCHANGED <<globals, docx_files, fs, pc, images, rel_to_image, paras, nread,
                   elements, render_locals, outcome>>

\* main calls convert_docx_to_txt for a docx file without a .txt:
\* convert_docx_to_txt up to the parsing strategy of parse_docx_structure;
\* the file at docx_path holds any of the packages
MainConvert ==
    /\ pc = "main_loop"
    /\ idx <= ndocs
    /\ ~fs[idx].exists
    /\ \E p \in Packages :
        /\ docx_files' = [docx_files EXCEPT ![idx] = p]
        /\ images' = extract_images_from_docx(p)
    /\ rel_to_image' = [id \in {} |-> <<>>]
    /\ paras' = <<>>
    /\ elements' = <<>>
    /\ ei' = 0
    /\ result_lines' = <<>>
    /\ image_count' = 0
    /\ calls' = <<>>
    /\ outcome' = ""
    /\ pc' = IF HAS_DOCX THEN "primary" ELSE "fallback"
    /\ UNCHANGED <<globals, idx, fs, printed, nread>>

\* MainNext as it would be without the try/except around the call: an
\* exception ends main
MainNext_uncaught ==
    /\ pc = "returned"
    /\ printed' = IF outcome = "raised" THEN [printed EXCEPT ![idx] = "error"] ELSE printed
    /\ idx' = idx + 1
    /\ pc' = IF outcome = "raised" THEN "finished" ELSE "main_loop"
    /\ images' = [n \in {} |-> ""]
    /\ rel_to_image' = [id \in {} |-> <<>>]
    /\ paras' = <<>>
    /\ elements' = <<>>
    /\ ei' = 0
    /\ result_lines' = <<>>
    /\ image_count' = 0
    /\ calls' = <<>>
    /\ outcome' = ""
    /\ UNCHANGED <<globals, docx_files, fs, nread>>

\* after the call: a blank line, or the diagnostic of the except clause
MainNext ==
    /\ pc = "returned"
    /\ printed' = IF outcome = "raised" THEN [printed EXCEPT ![idx] = "error"] ELSE printed
    /\ idx' = idx + 1
    /\ pc' = "main_loop"
    /\ images' = [n \in {} |-> ""]
    /\ rel_to_image' = [id \in {} |-> <<>>]
    /\ paras' = <<>>
    /\ elements' = <<>>
    /\ ei' = 0
    /\ result_lines' = <<>>
    /\ image_count' = 0
    /\ calls' = <<>>
    /\ outcome' = ""
    /\ UNCHANGED <<globals, docx_files, fs, nread>>

MainDone ==
    /\ pc = "main_loop"
    /\ idx > ndocs
    /\ pc' = "finished"
    /\ UNCHANGED <<globals, docx_files, idx, fs, printed, images, rel_to_image, paras, nread,
                   elements, render_locals, outcome>>

(***************************************************************************)
(* parse_docx_structure                                                    *)
(***************************************************************************)
\* python-docx branch up to its paragraph loop.  Document(docx_path) may raise
\* on a package this model calls well-formed; reading or parsing the
\* relationships part or the main part raises when it is missing or malformed.
\* Every exception ends the branch in its except clause.
PrimarySetup ==
    /\ pc = "primary"
    /\ \E opens \in BOOLEAN :
        IF opens /\ pkg.rels = "ok" /\ pkg.docxml = "ok"
        THEN /\ rel_to_image' = PrimaryRelToImage(RelsEntries)
             /\ pc' = "primary_loop"
        ELSE /\ rel_to_image' = rel_to_image
             /\ pc' = "fallback"
    /\ UNCHANGED <<globals, docx_files, idx, fs, printed, images, paras, nread, elements,
                   render_locals, outcome>>

PrimaryParagraph ==
    /\ pc = "primary_loop"
    /\ nread < ParaLimit
    /\ \E p \in Paragraphs :
        /\ paras' = Append(paras, p)
        /\ elements' = elements \o PrimaryEmit(p, rel_to_image, images)
    /\ nread' = nread + 1
    /\ UNCHANGED <<globals, docx_files, idx, fs, printed, pc, images, rel_to_image,
                   render_locals, outcome>>

PrimaryReturn ==
    /\ pc = "primary_loop"
    /\ pc' = "parsed"
    /\ UNCHANGED <<globals, docx_files, idx, fs, printed, images, rel_to_image, paras, nread,
                   elements, render_locals, outcome>>

\* fallback branch up to its paragraph loop: a malformed main part raises out of
\* parse_docx_structure and convert_docx_to_txt
FallbackSetup ==
    /\ pc = "fallback"
    /\ IF pkg.docxml = "ok"
       THEN /\ rel_to_image' = FallbackRelToImage(pkg)
            /\ pc' = "fallback_loop"
            /\ outcome' = outcome
       ELSE /\ rel_to_image' = rel_to_image
            /\ pc' = "returned"
            /\ outcome' = "raised"
    /\ UNCHANGED <<globals, docx_files, idx, fs, printed, images, paras, nread, elements,
                   render_locals>>

FallbackParagraph ==
    /\ pc = "fallback_loop"
    /\ nread < ParaLimit
    /\ \E p \in Paragraphs :
        /\ paras' = Append(paras, p)
        /\ elements' = elements \o FallbackEmit(p, rel_to_image, images)
    /\ nread' = nread + 1
    /\ UNCHANGED <<globals, docx_files, idx, fs, printed, pc, images, rel_to_image,
                   render_locals, outcome>>

FallbackReturn ==
    /\ pc = "fallback_loop"
    /\ pc' = "parsed"
    /\ UNCHANGED <<globals, docx_files, idx, fs, printed, images, rel_to_image, paras, nread,
                   elements, render_locals, outcome>>

(***************************************************************************)
(* convert_docx_to_txt after parsing                                       *)
(***************************************************************************)
\* without elements the function prints a warning, returns and writes nothing
CheckElements ==
    /\ pc = "parsed"
    /\ IF elements = <<>>
       THEN /\ pc' = "returned"
            /\ outcome' = "empty"
            /\ printed' = [printed EXCEPT ![idx] = "warning"]
            /\ ei' = ei
       ELSE /\ pc' = "render"
            /\ outcome' = outcome
            /\ printed' = printed
            /\ ei' = 1
    /\ result_lines' = <<>>
    /\ image_count' = 0
    /\ UNCHANGED <<globals, docx_files, idx, fs, images, rel_to_image, paras, nread, elements, calls>>

RenderText ==
    /\ pc = "render"
    /\ ei <= Len(elements)
    /\ elements[ei].type = "text"
    /\ result_lines' = result_lines \o <<Str(elements[ei].content), Str(<<>>)>>
    /\ ei' = ei + 1
    /\ UNCHANGED <<globals, docx_files, idx, fs, printed, pc, images, rel_to_image, paras, nread,
                   elements, image_count, calls, outcome>>

RenderImage ==
    /\ pc = "render"
    /\ ei <= Len(elements)
    /\ elements[ei].type = "image"
    /\ LET content == elements[ei].content
           image_name == PathName(content)
       IN  /\ image_count' = image_count + 1
           /\ \E resp \in Responses :
                IF content \in DOMAIN images
                THEN /\ calls' = Append(calls, content)
                     /\ result_lines' = result_lines \o
                            << Str(LabelLine(image_count', image_name)),
                               analyze_image_with_api(OPENROUTER_API_KEY, image_name, resp),
                               Str(<<>>) >>
                ELSE /\ calls' = calls
                     /\ result_lines' = result_lines \o
                            << Str(NotFoundLine(image_count', image_name)), Str(<<>>) >>
    /\ ei' = ei + 1
    /\ UNCHANGED <<globals, docx_files, idx, fs, printed, pc, images, rel_to_image, paras, nread,
                   elements, outcome>>

\* '\n'.join(result_lines) of a list whose items are all str
JoinLines(lines) == join(<<"\n">>, [i \in 1..Len(lines) |-> lines[i].val])

\* open(output_path, 'w') creates or empties the file; then the join, which
\* raises TypeError on an item that is no str; then the write
WriteOutput ==
    /\ pc = "render"
    /\ ei > Len(elements)
    /\ IF \A i \in 1..Len(result_lines) : result_lines[i].type = "str"
       THEN /\ fs' = [fs EXCEPT ![idx] = File(JoinLines(result_lines))]
            /\ outcome' = "written"
            /\ printed' = [printed EXCEPT ![idx] = "done"]
       ELSE /\ fs' = [fs EXCEPT ![idx] = File(<<>>)]
            /\ outcome' = "raised"
            /\ printed' = printed
    /\ pc' = "returned"
    /\ UNCHANGED <<globals, docx_files, idx, images, rel_to_image, paras, nread,
                   elements, render_locals>>

Next ==
    \/ MainCheckToken
    \/ MainSkip
    \/ MainConvert
    \/ MainNext
    \/ MainDone
    \/ PrimarySetup
    \/ PrimaryParagraph
    \/ PrimaryReturn
    \/ FallbackSetup
    \/ FallbackParagraph
    \/ FallbackReturn
    \/ CheckElements
    \/ RenderText
    \/ RenderImage
    \/ WriteOutput

Spec == Init /\ [][Next]_vars

(***************************************************************************)
(* The rendering loop of convert_docx_to_txt on its own: any sequence of   *)
(* elements, whether or not parse_docx_structure can return it, with the   *)
(* images of a package.                                                    *)
(***************************************************************************)
\* the elements a sequence is made of; word/media/C.png is not in images
ElementAlphabet ==
    { Text(<<"Title">>),
      Image(<<"word", "media", "A.png">>),
      Image(<<"word", "media", "B.png">>),
      Image(<<"word", "media", "C.png">>) }

ElementSeqs == UNION {[1..n -> ElementAlphabet] : n \in 0..MaxElements}

\* convert_docx_to_txt at the return of parse_docx_structure
RenderInit ==
    /\ target_path = "file"
    /\ OPENROUTER_API_KEY \in {"", "sk-key"}
    /\ HAS_DOCX \in BOOLEAN
    /\ docx_files = <<[rels |-> "ok", docxml |-> "ok"]>>
    /\ fs = <<NoFile>>
    /\ printed = <<"">>
    /\ idx = 1
    /\ pc = "parsed"
    /\ images = extract_images_from_docx(docx_files[1])
    /\ rel_to_image = FallbackRelToImage(docx_files[1])
    /\ paras = <<>>
    /\ nread = 0
    /\ elements \in ElementSeqs
    /\ ei = 0
    /\ result_lines = <<>>
    /\ image_count = 0
    /\ calls = <<>>
    /\ outcome = ""

RenderNext ==
    \/ CheckElements
    \/ RenderText
    \/ RenderImage
    \/ WriteOutput

RenderSpec == RenderInit /\ [][RenderNext]_vars

(***************************************************************************)
(* Vocabulary of the properties, stated on the package and the document,   *)
(* not on what the parser computed.                                        *)
(***************************************************************************)
SetMin(S) == CHOOSE x \in S : \A y \in S : x <= y
SetMax(S) == CHOOSE x \in S : \A y \in S : x >= y

Last(s) == s[Len(s)]

\* the runs of a paragraph one after the other, nothing between them
RECURSIVE FlatText(_)
FlatText(runs) ==
    IF runs = <<>> THEN <<>>
    ELSE FlatText(SubSeq(runs, 1, Len(runs) - 1)) \o Last(runs)

\* a text without its leading and trailing whitespace
Trimmed(s) ==
    LET solid == {i \in 1..Len(s) : s[i] \notin Whitespace}
    IN  IF solid = {} THEN <<>> ELSE SubSeq(s, SetMin(solid), SetMax(solid))

ParagraphText(p) == Trimmed(FlatText(p.runs))

\* the drawing is an image anchor: it carries a relationship-id
IsAnchor(d) == d.blip /\ d.embed # NoId

\* the relationship table of package k maps the anchor's id to a media path
InTable(k, d) ==
    /\ k.rels = "ok"
    /\ \E e \in RelsEntries : e.Id = d.embed /\ e.Target[1] = "media" /\ Len(e.Target) > 1

MediaPath(d) == <<"word">> \o (CHOOSE e \in RelsEntries : e.Id = d.embed).Target

\* the anchor resolves through the table to a media part of the package
Resolves(k, d) ==
    /\ IsAnchor(d)
    /\ InTable(k, d)
    /\ \E part \in PartsOf(k) : part.name = MediaPath(d)

Resolving(k, p) == {j \in 1..Len(p.drawings) : Resolves(k, p.drawings[j])}

ImagesIn(els) == SelectSeq(els, LAMBDA e : e.type = "image")
TextsIn(els) == SelectSeq(els, LAMBDA e : e.type = "text")

\* a paragraph was read in this step
ParagraphRead == Len(paras') = Len(paras) + 1

\* the elements this step appended
Appended == SubSeq(elements', Len(elements) + 1, Len(elements'))

InConversion == pc \in {"primary_loop", "fallback_loop", "parsed", "render", "returned"}

Written == pc = "returned" /\ outcome = "written"

\* the text of the output file of the current document
Output == fs[idx].text

Positions(text, token) == {t \in 1..Len(text) : text[t] = token}

\* the tokens that follow each occurrence of `token`, in order
RECURSIVE Following(_, _, _)
Following(text, token, off) ==
    IF text = <<>> THEN <<>>
    ELSE IF Head(text) = token /\ Len(text) > off
         THEN <<text[1 + off]>> \o Following(Tail(text), token, off)
         ELSE Following(Tail(text), token, off)

AllDrawings == UNION {{<<i, j>> : j \in 1..Len(paras[i].drawings)} : i \in 1..Len(paras)}

\* one Text per paragraph whose text is not empty, in the order of the paragraphs
RECURSIVE ExpectedTexts(_)
ExpectedTexts(ps) ==
    IF ps = <<>> THEN <<>>
    ELSE (IF ParagraphText(Head(ps)) # <<>> THEN <<Text(ParagraphText(Head(ps)))>> ELSE <<>>)
         \o ExpectedTexts(Tail(ps))

\* the whole paragraph loop of the python-docx branch
RECURSIVE PrimaryParse(_, _, _)
PrimaryParse(ps, rels, imgs) ==
    IF ps = <<>> THEN <<>>
    ELSE PrimaryEmit(Head(ps), rels, imgs) \o PrimaryParse(Tail(ps), rels, imgs)

\* the whole paragraph loop of the fallback branch
RECURSIVE FallbackParse(_, _, _)
FallbackParse(ps, rels, imgs) ==
    IF ps = <<>> THEN <<>>
    ELSE FallbackEmit(Head(ps), rels, imgs) \o FallbackParse(Tail(ps), rels, imgs)

(***************************************************************************)
(* C1                                                                      *)
(***************************************************************************)
\* C1: once the output is written, every image anchor of the document whose
\* relationship-id is not in the relationship table, or whose path is not in
\* the media store, has a "not found" block in the output, and
\* analyze_image_with_api was not called for it.
C1_UnresolvedAnchorRendersNotFound ==
    Written =>
        \A a \in AllDrawings :
            LET d == paras[a[1]].drawings[a[2]]
            IN  (IsAnchor(d) /\ ~Resolves(pkg, d)) =>
                    /\ Positions(Output, " - not found]") # {}
                    /\ InTable(pkg, d) => \A c \in 1..Len(calls) : calls[c] # MediaPath(d)

(***************************************************************************)
(* C2                                                                      *)
(***************************************************************************)
\* C2: a package without relationships part and with a well-formed main part
\* is converted without a fatal error, its paragraphs with text are the Text
\* elements, in order, and each of its drawings is a "not found" block of the
\* output.
C2_NoRelationshipsPart ==
    (pc = "returned" /\ pkg.rels = "missing" /\ pkg.docxml = "ok") =>
        /\ outcome # "raised"
        /\ TextsIn(elements) = ExpectedTexts(paras)
        /\ AllDrawings # {} =>
            /\ outcome = "written"
            /\ Cardinality(Positions(Output, " - not found]")) = Cardinality(AllDrawings)

(***************************************************************************)
(* C3                                                                      *)
(***************************************************************************)
C3Document ==
    << [runs |-> TitleRuns, drawings |-> <<>>],
       [runs |-> <<>>, drawings |-> <<Drawing("rId1")>>],
       [runs |-> BodyRuns, drawings |-> <<>>] >>

\* the three paragraphs were converted and the provider returned Desc
C3Scenario ==
    /\ Written
    /\ paras = C3Document
    /\ pkg.rels = "ok"
    /\ Len(result_lines) = 7
    /\ result_lines[4] = Str(Desc)

C3TextAsStated ==
    << "Title", "\n", "\n", "\n", "[IMAGE ", "1", ": ", "A.png", "]", "\n",
       "<desc>", "\n", "\n", "Body", " ", "text", "\n", "\n" >>

\* C3 as stated: the output of the scenario ends with two newlines after
\* "Body text".
C3_EndToEndTwoNewlines == C3Scenario => Output = C3TextAsStated

\* C3 as amended: the output of the scenario is the stated text with one
\* newline, not two, after "Body text"; the description line is Desc.
C3_EndToEndOneNewline ==
    C3Scenario => Output = SubSeq(C3TextAsStated, 1, Len(C3TextAsStated) - 1)

C3_ScenarioWritten ==
    /\ C3Scenario
    /\ Len(Output) = 17
    /\ Output[11] = "<desc>"
    /\ Output[16] = "text"
    /\ Output[17] = "\n"

(***************************************************************************)
(* C4                                                                      *)
(***************************************************************************)
\* C4: for any sequence of elements, the k-th image block carries counter k
\* and the name of the k-th ImageRef element, whether its path is in images
\* or not: in the lines rendered so far and in the written output, the
\* counters are 1, 2, ... in this order, one per ImageRef rendered, and Text
\* elements do not change them.
C4_CountersFollowImageRefs ==
    (pc \in {"render", "returned"} /\ elements # <<>>) =>
        LET imgs == ImagesIn(SubSeq(elements, 1, ei - 1))
            blocks == SelectSeq(result_lines,
                        LAMBDA l : l.type = "str" /\ Len(l.val) > 4 /\ l.val[2] = "[IMAGE ")
        IN  /\ Len(blocks) = Len(imgs)
            /\ \A k \in 1..Len(blocks) :
                /\ blocks[k].val[3] = ToString(k)
                /\ blocks[k].val[5] = Last(imgs[k].content)
            /\ Written =>
                /\ Following(Output, "[IMAGE ", 1) = [k \in 1..Len(imgs) |-> ToString(k)]
                /\ Following(Output, "[IMAGE ", 3) =
                        [k \in 1..Len(imgs) |-> Last(imgs[k].content)]

\* an image that is not found, a text, an image that is found
C4_TwoImagesAroundText ==
    /\ Written
    /\ Len(elements) = 3
    /\ elements[1].type = "image" /\ elements[1].content \notin DOMAIN images
    /\ elements[2].type = "text"
    /\ elements[3].type = "image" /\ elements[3].content \in DOMAIN images
    /\ calls = <<elements[3].content>>
    /\ Following(Output, "[IMAGE ", 1) = <<"1", "2">>
    /\ Following(Output, "[IMAGE ", 4) = <<" - not found]", "]">>

(***************************************************************************)
(* C5                                                                      *)
(***************************************************************************)
\* C5: while the paragraphs read have no drawing, the elements are one Text
\* per paragraph whose runs, put together without separator and trimmed, are
\* not empty, in the order of the paragraphs, each Text being that trimmed
\* text; and neither the rendered lines nor the output hold an image block.
C5_TextOnlyDocument ==
    (InConversion /\ \A i \in 1..Len(paras) : paras[i].drawings = <<>>) =>
        /\ elements = ExpectedTexts(paras)
        /\ \A i \in 1..Len(result_lines) : Positions(result_lines[i].val, "[IMAGE ") = {}
        /\ Written => Positions(Output, "[IMAGE ") = {}

C5_TextOnlyWritten ==
    /\ Written
    /\ \A i \in 1..Len(paras) : paras[i].drawings = <<>>
    /\ \E i \in 1..Len(paras) : ParagraphText(paras[i]) = <<>>
    /\ \E i \in 1..Len(paras) : Len(paras[i].runs) > 1 /\ ParagraphText(paras[i]) # <<>>
    /\ Len(elements) = Len(paras) - 1

(***************************************************************************)
(* C6                                                                      *)
(***************************************************************************)
\* C6: reading a paragraph with exactly one resolving image appends to the
\* elements its trimmed text, when not empty, as a Text immediately followed
\* by the ImageRef, and nothing else; without text only the ImageRef; and no
\* step other than reading a paragraph adds elements, so that the text is not
\* emitted again later.
C6_TextThenImage ==
    [][ /\ (ParagraphRead /\ Cardinality(Resolving(pkg, Last(paras'))) = 1) =>
            LET p == Last(paras')
                d == p.drawings[CHOOSE j \in Resolving(pkg, p) : TRUE]
            IN  /\ SubSeq(elements', 1, Len(elements)) = elements
                /\ Appended =
                    (IF ParagraphText(p) # <<>> THEN <<Text(ParagraphText(p))>> ELSE <<>>)
                    \o <<Image(MediaPath(d))>>
        /\ elements' # elements => (ParagraphRead \/ elements' = <<>>)
      ]_vars

C6_TextAndImageRead ==
    /\ pc \in {"primary_loop", "fallback_loop"}
    /\ Len(paras) > 1
    /\ Cardinality(Resolving(pkg, Last(paras))) = 1
    /\ ParagraphText(Last(paras)) # <<>>
    /\ Len(elements) > 2
    /\ elements[Len(elements) - 1] = Text(ParagraphText(Last(paras)))
    /\ Last(elements).type = "image"

(***************************************************************************)
(* C7                                                                      *)
(***************************************************************************)
\* C7: on a package with valid main and relationships parts, what the
\* python-docx branch has built is what the fallback branch builds from the
\* same paragraphs, and the reverse: the same relationship table, the same
\* elements in the same order, the same media store.
C7_StrategiesAgree ==
    /\ pc = "primary_loop" =>
        /\ rel_to_image = FallbackRelToImage(pkg)
        /\ elements = FallbackParse(paras, FallbackRelToImage(pkg), images)
    /\ (pc = "fallback_loop" /\ pkg.rels = "ok") =>
        /\ rel_to_image = PrimaryRelToImage(RelsEntries)
        /\ elements = PrimaryParse(paras, PrimaryRelToImage(RelsEntries), images)
    /\ pc \in {"primary_loop", "fallback_loop"} => images = extract_images_from_docx(pkg)

C7_FallbackOnWellFormed ==
    /\ pc = "fallback_loop"
    /\ HAS_DOCX
    /\ pkg.rels = "ok"
    /\ Len(paras) > 1
    /\ ImagesIn(elements) # <<>>
    /\ TextsIn(elements) # <<>>
    /\ \E i \in 1..Len(paras) : Len(paras[i].drawings) > 2

(***************************************************************************)
(* C8                                                                      *)
(***************************************************************************)
\* C8: whatever the provider does, analyze_image_with_api returns a string,
\* so every rendered line is a string, and a document with elements is
\* rendered to its end and its output is written.
C8_ImageFailureNeverAborts ==
    /\ \A i \in 1..Len(result_lines) : result_lines[i].type = "str"
    /\ (pc = "returned" /\ elements # <<>>) => outcome = "written"

(***************************************************************************)
(* C9                                                                      *)
(***************************************************************************)
\* main went through its loop over a batch holding a document that had no
\* output and whose main part is malformed
BatchWithFailureDone ==
    /\ pc = "finished"
    /\ OPENROUTER_API_KEY # ""
    /\ \E i \in 1..ndocs : printed[i] # "skip" /\ docx_files[i].docxml = "malformed"

\* C9 as stated: in such a batch the unparseable document gets a diagnostic
\* and no output file, and every other document that had no output has its
\* output file, wherever it stands in the batch.
C9_SiblingsAllConverted ==
    BatchWithFailureDone =>
        \A i \in 1..ndocs :
            printed[i] # "skip" =>
                IF docx_files[i].docxml = "malformed"
                THEN printed[i] = "error" /\ ~fs[i].exists
                ELSE fs[i].exists

\* C9 as amended: in such a batch the unparseable document gets a diagnostic
\* and no output file, and every other document that had no output is still
\* processed by convert_docx_to_txt, wherever it stands: it ends with its
\* output written, or with a warning and no output when it yields no
\* element, or with its own diagnostic and an empty output when its own
\* rendering raises.
C9_SiblingsAllProcessed ==
    BatchWithFailureDone =>
        \A i \in 1..ndocs :
            printed[i] # "skip" =>
                IF docx_files[i].docxml = "malformed"
                THEN printed[i] = "error" /\ ~fs[i].exists
                ELSE \/ printed[i] = "done" /\ fs[i].exists /\ fs[i].text # <<>>
                     \/ printed[i] = "warning" /\ ~fs[i].exists
                     \/ printed[i] = "error" /\ fs[i] = File(<<>>)

C9_ConvertedAfterFailure ==
    /\ BatchWithFailureDone
    /\ ndocs > 1
    /\ docx_files[1].docxml = "malformed"
    /\ printed[1] = "error"
    /\ printed[ndocs] = "done"
    /\ fs[ndocs].exists
    /\ fs[ndocs].text # <<>>

(***************************************************************************)
(* C10                                                                     *)
(***************************************************************************)
\* C10: reading a paragraph appends at most one ImageRef: the image of the
\* first of its anchors, in anchor order, that resolves through the
\* relationship table to a path of the media store; anchors before it that do
\* not resolve and all anchors after it add no element.
C10_FirstResolvingAnchor ==
    [][ ParagraphRead =>
            LET p == Last(paras')
                R == Resolving(pkg, p)
            IN  /\ SubSeq(elements', 1, Len(elements)) = elements
                /\ ImagesIn(Appended) =
                    IF R = {} THEN <<>>
                    ELSE <<Image(MediaPath(p.drawings[SetMin(R)]))>>
      ]_vars

C10_LaterAnchorsSkipped ==
    /\ pc \in {"primary_loop", "fallback_loop"}
    /\ paras # <<>>
    /\ LET p == Last(paras)
           R == Resolving(pkg, p)
       IN  /\ Cardinality(R) > 1
           /\ SetMin(R) > 1
           /\ elements # <<>>
           /\ Last(elements) = Image(MediaPath(p.drawings[SetMin(R)]))
           /\ Len(ImagesIn(elements)) = 1

====
